---- MODULE Spec2Model ----
(***************************************************************************)
(* The interactive terminal session of CA1/P2 (user_connection.py and      *)
(* admin_connection.py, whose interactive_shell functions are the same     *)
(* text) as a state machine: raw-mode entry, the select loop over the      *)
(* channel and the local input, the keystroke-to-command-line assembly     *)
(* into commands_log, and the finally block that flushes the pending       *)
(* buffer and restores the terminal.                                       *)
(*                                                                         *)
(* Strings are sequences of one-character tokens.  The operator, the       *)
(* remote end and the I/O failures are the environment.                    *)
(*                                                                         *)
(* Spec is one call of interactive_shell; MainSpec is a whole run of       *)
(* user_connection.main or admin_connection.main (connect, the command     *)
(* loop with its transfers and shells, the except and finally clauses);    *)
(* CopySpec is one call of each of the three copies of interactive_shell,  *)
(* the third being the one of CA1/P3/cluster_system_health_monitor.py.     *)
(* HistSpec is any sequence of update_history calls of the two monitors    *)
(* of CA1/P3; MonSpec is the monitor thread of the cluster monitor         *)
(* interleaved with the status command of its main thread.                 *)
(***************************************************************************)
EXTENDS Integers, Sequences, FiniteSets, TLC

(* ---------------- bounds ---------------- *)

\* number of keystrokes the operator types in one session
MaxKeys == 3

\* number of chunks the remote end sends in one session
MaxChunks == 1

(* ---------------- characters ---------------- *)

\* '\r', the line-termination character
CR == "\\r"

\* '\x7f'
DEL == "\\x7f"

\* '\b'
BS == "\\b"

\* '\x1d' (Ctrl+]), the sentinel exit character
SENTINEL == "\\x1d"

\* '\x03' (Ctrl+C), a control character that is none of the above
ETX == "\\x03"

\* one representative per class of characters the code tells apart:
\* a printable non-blank, the blank, and the five control characters
Chars == {"a", " ", CR, DEL, BS, SENTINEL, ETX}

\* the printable non-blank characters that occur in the model: "a" stands
\* for the class, the others spell the input lines of spec.md section 8
Letters == {"a", "l", "s", "-", "p", "w", "d"}

\* str.isprintable() of a one-character string
isprintable(c) == c \in Letters \cup {" "}

\* str.isspace() of a one-character string: the characters str.strip()
\* removes ('\x1d' is one of them, as are '\r' and the blank)
isspace(c) == c \in {" ", CR, SENTINEL}

RECURSIVE lstrip(_)
lstrip(s) ==
  IF s = <<>> THEN <<>>
  ELSE IF isspace(Head(s)) THEN lstrip(Tail(s))
  ELSE s

RECURSIVE rstrip(_)
rstrip(s) ==
  IF s = <<>> THEN <<>>
  ELSE IF isspace(s[Len(s)]) THEN rstrip(SubSeq(s, 1, Len(s) - 1))
  ELSE s

\* command_buffer.strip()
strip(s) == rstrip(lstrip(s))

\* a slice that drops the first character instead of the last
DropFirst(s) == IF s = <<>> THEN <<>> ELSE Tail(s)

\* command_buffer[:-1]
DropLast(s) == IF s = <<>> THEN <<>> ELSE SubSeq(s, 1, Len(s) - 1)

\* a comparison with another control character than Ctrl+]
IsSentinelWrongKey(c) == c = ETX

\* char == '\x1d'
IsSentinel(c) == c = SENTINEL

\* char in ['\x7f', '\b']
IsBackspace(c) == c \in {DEL, BS}

(* ---------------- the channel's data ---------------- *)

\* a chunk recv returns: text that decodes, or bytes that are not valid
\* UTF-8 on their own
Chunks == {"text", "badutf8"}

\* whether data.decode() returns (it raises UnicodeDecodeError otherwise)
Decodes(data) == data = "text"

(* ---------------- state ---------------- *)

VARIABLES
  pc,              \* position of interactive_shell
  r,               \* the ready list select returned in this iteration
  handled,         \* the sources this iteration has processed so far
  command_buffer,  \* the in-progress command line
  commands_log,    \* the caller's list of reconstructed commands
  keys,            \* the keystrokes the operator is still going to type
  pending,         \* typed keystrokes that sys.stdin has not been read for
  inbox,           \* chunks the remote sent that recv has not returned
  produced,        \* number of chunks the remote has sent
  closed,          \* the remote closed the channel
  readSeq,         \* every character sys.stdin.read(1) returned
  sent,            \* every argument passed to channel.send
  output,          \* every chunk written to sys.stdout
  enters,          \* number of times raw mode was entered
  restores,        \* number of calls of restore_terminal
  exitPath,        \* how the loop was left
  raised,          \* the exception interactive_shell propagates, if any
  fed,             \* every character handed to the assembly of lines 42-49
  prog,            \* the program: "user", "admin" or "cluster"
  mpc,             \* position of main
  sessions,        \* number of calls of interactive_shell
  transfers,       \* number of download_file and upload_file calls
  logBound,        \* main has assigned commands_log
  shown,           \* main has printed the command log
  printed,         \* the entries main printed
  clientClosed,    \* client.close() was called
  escaped,         \* the exception that left main, if any
  timestamps,      \* the global list timestamps of the monitor
  cpu_history,     \* the global list cpu_history
  mem_history,     \* the global list mem_history
  disk_history,    \* the global list disk_history
  last_metrics,    \* the global last_metrics of the cluster monitor
  last_warnings,   \* the global list last_warnings
  monitoring_active, \* the global flag the monitor loop tests
  now,             \* the clock reading, the number of samples taken so far
  arrived,         \* every sample update_history has accepted, in order
  noneCalls,       \* number of calls update_history(None)
  hot,             \* number of samples taken under load
  tpc,             \* position of the monitor thread in monitor_server
  metrics,         \* the local metrics of monitor_server
  cpc,             \* position of the main thread of the cluster monitor
  it,              \* index of the list iterator of print_status
  shownWarnings,   \* the warnings the running print_status has printed
  shownMetrics,    \* the cpu, memory and disk figures it has printed
  prints           \* number of status commands given

vars == <<pc, r, handled, command_buffer, commands_log, keys, pending, inbox,
          produced, closed, readSeq, sent, output, enters, restores,
          exitPath, raised, fed, prog, mpc, sessions, transfers, logBound,
          shown, printed, clientClosed, escaped, timestamps, cpu_history,
          mem_history, disk_history, last_metrics, last_warnings,
          monitoring_active, now, arrived, noneCalls, hot, tpc, metrics, cpc,
          it, shownWarnings, shownMetrics, prints>>

\* the state of main
mainvars == <<prog, mpc, sessions, transfers, logBound, shown, printed,
              clientClosed, escaped>>

\* the four history lists of the monitors
history == <<timestamps, cpu_history, mem_history, disk_history>>

\* the state of the monitors of CA1/P3
monvars == <<history, last_metrics, last_warnings, monitoring_active, now,
             arrived, noneCalls, hot, tpc, metrics, cpc, it, shownWarnings,
             shownMetrics, prints>>

session == <<command_buffer, commands_log, readSeq, sent, output, fed>>
terminal == <<enters, restores>>
remote == <<inbox, produced, closed>>
operator == <<keys, pending>>

\* all sequences over S of length at most n
RECURSIVE SeqsUpTo(_, _)
SeqsUpTo(S, n) ==
  IF n = 0 THEN {<<>>}
  ELSE LET shorter == SeqsUpTo(S, n - 1)
       IN  shorter \cup {Append(s, c) : s \in {t \in shorter : Len(t) = n - 1}, c \in S}

\* Python's None
None == [none |-> TRUE]

\* no monitor is running: the module globals of lines 20-28 as assigned at
\* import
MonIdle ==
  /\ timestamps = <<>>
  /\ cpu_history = <<>>
  /\ mem_history = <<>>
  /\ disk_history = <<>>
  /\ last_metrics = None
  /\ last_warnings = <<>>
  /\ monitoring_active = FALSE
  /\ now = 0
  /\ arrived = <<>>
  /\ noneCalls = 0
  /\ hot = 0
  /\ tpc = "off"
  /\ metrics = None
  /\ cpc = "off"
  /\ it = 0
  /\ shownWarnings = <<>>
  /\ shownMetrics = <<>>
  /\ prints = 0

InitRest ==
  /\ pc = "start"
  /\ r = {}
  /\ handled = {}
  /\ command_buffer = <<>>
  /\ commands_log = <<>>
  /\ pending = <<>>
  /\ inbox = <<>>
  /\ produced = 0
  /\ closed = FALSE
  /\ readSeq = <<>>
  /\ sent = <<>>
  /\ output = <<>>
  /\ enters = 0
  /\ restores = 0
  /\ exitPath = "none"
  /\ raised = "none"
  /\ fed = <<>>

\* the input lines of spec.md section 8
LsLa == <<"l", "s", " ", "-", "l", "a", CR>>
LsPwd == <<"l", "s", DEL, DEL, "p", "w", "d", CR>>
Blanks == <<" ", " ", " ", CR>>
Examples == {LsLa, LsPwd, Blanks}

\* main has called interactive_shell(channel, commands_log) with the empty
\* list of line 77
InShell ==
  /\ mpc = "shell"
  /\ sessions = 1
  /\ transfers = 0
  /\ logBound = TRUE
  /\ shown = FALSE
  /\ printed = <<>>
  /\ clientClosed = FALSE
  /\ escaped = "none"

\* the operator types any short sequence of characters, or one of the
\* example lines
Init ==
  /\ keys \in SeqsUpTo(Chars, MaxKeys) \cup Examples
  /\ InitRest
  /\ prog = "user"
  /\ InShell
  /\ MonIdle

(* ---------------- the keystroke line assembly ---------------- *)

\* an assembly whose '\r' branch does not reset the buffer
AssembleKeepsBuffer(buf, log, char) ==
  IF char = CR
    THEN [buf |-> buf,
          log |-> IF strip(buf) # <<>> THEN Append(log, strip(buf)) ELSE log]
  ELSE IF IsBackspace(char)
    THEN [buf |-> DropLast(buf), log |-> log]
  ELSE IF isprintable(char)
    THEN [buf |-> Append(buf, char), log |-> log]
  ELSE [buf |-> buf, log |-> log]

\* an assembly that appends every character that is neither '\r' nor a
\* backspace (no isprintable test)
AssembleAppendsAll(buf, log, char) ==
  IF char = CR
    THEN [buf |-> <<>>,
          log |-> IF strip(buf) # <<>> THEN Append(log, strip(buf)) ELSE log]
  ELSE IF IsBackspace(char)
    THEN [buf |-> DropLast(buf), log |-> log]
  ELSE [buf |-> Append(buf, char), log |-> log]

\* lines 42-49: what one forwarded character does to the buffer and the log
Assemble(buf, log, char) ==
  IF char = CR
    THEN [buf |-> <<>>,
          log |-> IF strip(buf) # <<>> THEN Append(log, strip(buf)) ELSE log]
  ELSE IF IsBackspace(char)
    THEN [buf |-> DropLast(buf), log |-> log]
  ELSE IF isprintable(char)
    THEN [buf |-> Append(buf, char), log |-> log]
  ELSE [buf |-> buf, log |-> log]

\* a flush that appends the buffer without trimming it
FlushUntrimmed(buf, log) ==
  IF strip(buf) # <<>> THEN Append(log, buf) ELSE log

\* lines 52-53: the flush of the finally block
Flush(buf, log) ==
  IF strip(buf) # <<>> THEN Append(log, strip(buf)) ELSE log

\* an exception that skips the flush (the flush after the loop, not in a
\* finally block)
OnRaiseSkipFlush == "restore"

\* an exception that skips the whole cleanup (no finally block)
OnRaiseNoCleanup == "done"

\* an exception that is swallowed and the local read tried again
OnRaiseRetry == "stdin"

\* where control goes when a statement of the try block raises
OnRaise == "finally"

\* a continue in place of the break of line 32
OnEndOfStreamContinue == "select"

\* a break that returns without running the cleanup
OnEndOfStreamNoCleanup == "done"

\* a break that leaves through a path without the flush
OnEndOfStreamSkipFlush == "restore"

\* where control goes on the break of line 32 (recv returned no data)
OnEndOfStream == "finally"

\* a timeout that is not caught and leaves the loop as an error
OnTimeoutRaises(ready) == "finally"

\* where control goes on the continue of line 36 (recv timed out)
OnTimeout(ready) == "select"

\* where control goes after the channel's data was written (line 37)
AfterWrite(ready) == IF "stdin" \in ready THEN "stdin" ELSE "select"

\* a send that is only made for the characters the assembler acts on
ForwardAssembled(sofar, char) ==
  IF isprintable(char) \/ IsBackspace(char) \/ char = CR
    THEN Append(sofar, char)
    ELSE sofar

\* line 41: the characters passed to channel.send so far
Forward(sofar, char) == Append(sofar, char)

\* a setup_terminal inside the try block: its failure runs the finally block
OnSetupFailCleanup == "finally"

\* line 22 is before the try: where control goes when setup_terminal raises
OnSetupFail == "done"

\* a cluster monitor whose interactive_shell also assembled command lines
AssembleForAll(p, buf, log, char) == Assemble(buf, log, char)

\* the assembly of the program: the interactive_shell of the cluster monitor
\* (lines 189-193) has no buffer and no log
AssembleFor(p, buf, log, char) ==
  IF p = "cluster" THEN [buf |-> buf, log |-> log] ELSE Assemble(buf, log, char)

\* the flush of the program: the finally block of the cluster monitor
\* (lines 194-196) only restores the terminal
FlushFor(p, buf, log) ==
  IF p = "cluster" THEN log ELSE Flush(buf, log)

(* ---------------- interactive_shell ---------------- *)

\* line 22 (lines 10-14): tcgetattr, then tty.setraw; either may raise, and
\* then nothing of the function has run
setup_terminal ==
  /\ pc = "start"
  /\ \E ok \in BOOLEAN :
       IF ok
         THEN /\ enters' = enters + 1
              /\ pc' = "select"
              /\ raised' = raised
         ELSE /\ enters' = enters
              /\ pc' = OnSetupFail
              /\ raised' = "TerminalModeError"
  /\ command_buffer' = <<>>
  /\ UNCHANGED <<r, handled, commands_log, readSeq, sent, output, fed,
                 restores, exitPath, remote, operator, mainvars>>
  /\ UNCHANGED monvars

\* line 27: select returns the sources that are ready, once there is one.
\* The channel is ready when it holds data or is closed; it can also be
\* reported ready with nothing to deliver, and recv then times out.
select_wait ==
  /\ pc = "select"
  /\ \E spurious \in BOOLEAN :
       LET chan == IF inbox # <<>> \/ closed \/ spurious THEN {"channel"} ELSE {}
           stdin == IF pending # <<>> THEN {"stdin"} ELSE {}
       IN  /\ chan \cup stdin # {}
           /\ r' = chan \cup stdin
           /\ pc' = IF chan # {} THEN "chan" ELSE "stdin"
  /\ handled' = {}
  /\ UNCHANGED <<session, terminal, exitPath, raised, remote, operator,
                 mainvars>>
  /\ UNCHANGED monvars

\* lines 28-36: the channel branch
channel_recv ==
  /\ pc = "chan"
  /\ handled' = handled \cup {"channel"}
  /\ \/ \* recv returns data: decode and write it
        /\ inbox # <<>>
        /\ inbox' = Tail(inbox)
        /\ IF Decodes(Head(inbox))
             THEN /\ output' = Append(output, Head(inbox))
                  /\ pc' = AfterWrite(r)
                  /\ raised' = raised
             ELSE /\ output' = output
                  /\ pc' = OnRaise
                  /\ raised' = "UnicodeDecodeError"
        /\ UNCHANGED exitPath
     \/ \* recv returns b'': break
        /\ inbox = <<>>
        /\ closed
        /\ pc' = OnEndOfStream
        /\ exitPath' = "eos"
        /\ UNCHANGED <<inbox, output, raised>>
     \/ \* recv raises socket.timeout: continue
        /\ inbox = <<>>
        /\ ~closed
        /\ pc' = OnTimeout(r)
        /\ UNCHANGED <<inbox, output, raised, exitPath>>
     \/ \* recv raises another error
        /\ pc' = OnRaise
        /\ raised' = "ChannelReadError"
        /\ UNCHANGED <<inbox, output, exitPath>>
  /\ UNCHANGED <<r, command_buffer, commands_log, readSeq, sent, fed,
                 terminal, produced, closed, operator, mainvars>>
  /\ UNCHANGED monvars

\* lines 37-49: the local input branch
stdin_read ==
  /\ pc = "stdin"
  /\ "stdin" \in r
  /\ pending # <<>>
  /\ \/ \* sys.stdin.read raises
        /\ pc' = OnRaise
        /\ raised' = "LocalInputError"
        /\ UNCHANGED <<handled, session, pending, exitPath>>
     \/ \* a character is read
        LET char == Head(pending) IN
        /\ pending' = Tail(pending)
        /\ readSeq' = Append(readSeq, char)
        /\ handled' = handled \cup {"stdin"}
        /\ IF IsSentinel(char)
             THEN /\ pc' = "finally"
                  /\ exitPath' = "sentinel"
                  /\ UNCHANGED <<sent, fed, command_buffer, commands_log,
                                 raised>>
             ELSE /\ sent' = Forward(sent, char)
                  /\ UNCHANGED exitPath
                  /\ \E ok \in BOOLEAN :
                       IF ok
                         THEN /\ command_buffer' =
                                   AssembleFor(prog, command_buffer, commands_log, char).buf
                              /\ commands_log' =
                                   AssembleFor(prog, command_buffer, commands_log, char).log
                              /\ fed' = Append(fed, char)
                              /\ pc' = "select"
                              /\ raised' = raised
                         ELSE /\ pc' = OnRaise
                              /\ raised' = "ChannelWriteError"
                              /\ UNCHANGED <<command_buffer, commands_log, fed>>
        /\ UNCHANGED output
  /\ UNCHANGED <<r, keys, terminal, remote, mainvars>>
  /\ UNCHANGED monvars

\* lines 51-53: the finally block flushes the pending buffer
finally_flush ==
  /\ pc = "finally"
  /\ commands_log' = FlushFor(prog, command_buffer, commands_log)
  /\ pc' = "restore"
  /\ UNCHANGED <<r, handled, command_buffer, readSeq, sent, output, fed,
                 terminal, exitPath, raised, remote, operator, mainvars>>
  /\ UNCHANGED monvars

\* lines 54-55 (lines 16-18): restore_terminal is called; tcsetattr may raise
restore_terminal ==
  /\ pc = "restore"
  /\ restores' = restores + 1
  /\ pc' = "done"
  /\ \E ok \in BOOLEAN :
       raised' = IF ok THEN raised ELSE "TerminalModeError"
  /\ UNCHANGED <<r, handled, session, enters, exitPath, remote, operator,
                 mainvars>>
  /\ UNCHANGED monvars

(* ---------------- the environment ---------------- *)

\* the operator presses the next key
operator_types ==
  /\ pc \notin {"idle", "done"}
  /\ keys # <<>>
  /\ pending' = Append(pending, Head(keys))
  /\ keys' = Tail(keys)
  /\ UNCHANGED <<pc, r, handled, session, terminal, exitPath, raised, remote,
                 mainvars>>
  /\ UNCHANGED monvars

\* the remote end sends a chunk
remote_sends ==
  /\ pc \notin {"idle", "done"}
  /\ ~closed
  /\ produced < MaxChunks
  /\ \E data \in Chunks : inbox' = Append(inbox, data)
  /\ produced' = produced + 1
  /\ UNCHANGED <<pc, r, handled, session, terminal, exitPath, raised, closed,
                 operator, mainvars>>
  /\ UNCHANGED monvars

\* the remote end closes the channel
remote_closes ==
  /\ pc \notin {"idle", "done"}
  /\ ~closed
  /\ closed' = TRUE
  /\ UNCHANGED <<pc, r, handled, session, terminal, exitPath, raised, inbox,
                 produced, operator, mainvars>>
  /\ UNCHANGED monvars

Next ==
  \/ setup_terminal
  \/ select_wait
  \/ channel_recv
  \/ stdin_read
  \/ finally_flush
  \/ restore_terminal
  \/ operator_types
  \/ remote_sends
  \/ remote_closes

Spec == Init /\ [][Next]_vars

(* ---------------- main ---------------- *)

\* number of interactive shells one run of admin_connection opens
MaxSessions == 2

\* number of file transfers one run of admin_connection makes
MaxTransfers == 1

\* the characters typed in the runs of main: a printable one, '\r' and the
\* sentinel
MainChars == {"a", CR, SENTINEL}

\* admin_connection.py lines 62 and 71: the entry a transfer appends,
\* f"downloaded {remote_path} to {local_path}" and
\* f"uploaded {local_path} to {remote_path}"
TransferEntry(op) ==
  IF op = "download_file"
    THEN <<"downloaded", "remote_path", "to", "local_path">>
    ELSE <<"uploaded", "local_path", "to", "remote_path">>

\* a transfer that starts the log again with its own entry
LogAfterTransferReset(log, op, ok) ==
  IF ok THEN <<TransferEntry(op)>> ELSE log

\* admin_connection.py lines 57-73: download_file and upload_file append
\* their entry when the transfer succeeded and only print when it failed
LogAfterTransfer(log, op, ok) ==
  IF ok THEN Append(log, TransferEntry(op)) ELSE log

\* main before its first statement: no session, no log
MainInit ==
  /\ prog \in {"user", "admin"}
  /\ keys \in SeqsUpTo(MainChars, MaxKeys)
  /\ pc = "idle"
  /\ mpc = "connect"
  /\ r = {}
  /\ handled = {}
  /\ command_buffer = <<>>
  /\ commands_log = <<>>
  /\ pending = <<>>
  /\ inbox = <<>>
  /\ produced = 0
  /\ closed = FALSE
  /\ readSeq = <<>>
  /\ sent = <<>>
  /\ output = <<>>
  /\ enters = 0
  /\ restores = 0
  /\ exitPath = "none"
  /\ raised = "none"
  /\ fed = <<>>
  /\ sessions = 0
  /\ transfers = 0
  /\ logBound = FALSE
  /\ shown = FALSE
  /\ printed = <<>>
  /\ clientClosed = FALSE
  /\ escaped = "none"
  /\ MonIdle

\* the call interactive_shell(channel, commands_log) on a new channel
CallShell ==
  /\ pc' = "start"
  /\ mpc' = "shell"
  /\ sessions' = sessions + 1
  /\ r' = {}
  /\ handled' = {}
  /\ command_buffer' = <<>>
  /\ readSeq' = <<>>
  /\ sent' = <<>>
  /\ fed' = <<>>
  /\ output' = <<>>
  /\ inbox' = <<>>
  /\ produced' = 0
  /\ closed' = FALSE
  /\ exitPath' = "none"
  /\ raised' = "none"

\* user_connection.py lines 66-79, admin_connection.py lines 83-94: connect
\* and what follows up to the creation of commands_log; any of the calls
\* may raise, and then commands_log is not assigned
main_connect ==
  /\ mpc = "connect"
  /\ \E ok \in BOOLEAN :
       IF ~ok
         THEN /\ mpc' = "except"
              /\ UNCHANGED <<pc, r, handled, session, exitPath, raised, remote,
                             sessions, logBound>>
         ELSE /\ logBound' = TRUE
              /\ commands_log' = <<>>
              /\ IF prog = "user"
                   THEN CallShell
                   ELSE /\ mpc' = "prompt"
                        /\ UNCHANGED <<pc, r, handled, command_buffer,
                                       readSeq, sent, output, fed, exitPath,
                                       raised, remote, sessions>>
  /\ UNCHANGED <<terminal, operator, prog, transfers, shown, printed,
                 clientClosed, escaped>>
  /\ UNCHANGED monvars

\* admin_connection.py lines 97-104: a download_file or upload_file command
main_transfer ==
  /\ prog = "admin"
  /\ mpc = "prompt"
  /\ transfers < MaxTransfers
  /\ transfers' = transfers + 1
  /\ \E op \in {"download_file", "upload_file"}, ok \in BOOLEAN :
       commands_log' = LogAfterTransfer(commands_log, op, ok)
  /\ UNCHANGED <<pc, r, handled, command_buffer, readSeq, sent, output, fed,
                 exitPath, raised, remote, terminal, operator, prog, mpc,
                 sessions, logBound, shown, printed, clientClosed, escaped>>
  /\ UNCHANGED monvars

\* admin_connection.py lines 107-111: the shell command; invoke_shell may
\* raise
main_shell ==
  /\ prog = "admin"
  /\ mpc = "prompt"
  /\ sessions < MaxSessions
  /\ \E ok \in BOOLEAN :
       IF ok
         THEN CallShell
         ELSE /\ mpc' = "except"
              /\ UNCHANGED <<pc, r, handled, command_buffer, readSeq, sent,
                             output, fed, exitPath, raised, remote, sessions>>
  /\ UNCHANGED <<commands_log, terminal, operator, prog, transfers, logBound,
                 shown, printed, clientClosed, escaped>>
  /\ UNCHANGED monvars

\* admin_connection.py lines 112-119: the exit command prints the log and
\* leaves the loop
main_exit ==
  /\ prog = "admin"
  /\ mpc = "prompt"
  /\ shown' = TRUE
  /\ printed' = commands_log
  /\ mpc' = "finally"
  /\ UNCHANGED <<pc, r, handled, session, exitPath, raised, remote, terminal,
                 operator, prog, sessions, transfers, logBound, clientClosed,
                 escaped>>
  /\ UNCHANGED monvars

\* admin_connection.py line 96: input() raises (end of input at the prompt)
main_input_error ==
  /\ prog = "admin"
  /\ mpc = "prompt"
  /\ mpc' = "except"
  /\ UNCHANGED <<pc, r, handled, session, exitPath, raised, remote, terminal,
                 operator, prog, sessions, transfers, logBound, shown, printed,
                 clientClosed, escaped>>
  /\ UNCHANGED monvars

\* interactive_shell returns to main or raises into it (user_connection.py
\* line 79, admin_connection.py line 111)
shell_returns ==
  /\ mpc = "shell"
  /\ pc = "done"
  /\ pc' = "idle"
  /\ mpc' = IF raised # "none" THEN "except"
            ELSE IF prog = "admin" THEN "prompt"
            ELSE "finally"
  /\ UNCHANGED <<r, handled, session, exitPath, raised, remote, terminal,
                 operator, prog, sessions, transfers, logBound, shown, printed,
                 clientClosed, escaped>>
  /\ UNCHANGED monvars

\* user_connection.py lines 80-81, admin_connection.py lines 121-122: the
\* except clause prints the error
main_except ==
  /\ mpc = "except"
  /\ mpc' = "finally"
  /\ UNCHANGED <<pc, r, handled, session, exitPath, raised, remote, terminal,
                 operator, prog, sessions, transfers, logBound, shown, printed,
                 clientClosed, escaped>>
  /\ UNCHANGED monvars

\* user_connection.py lines 82-86: the finally clause prints the log, which
\* raises NameError when commands_log was never assigned, and closes the
\* client; admin_connection.py lines 123-124: it only closes the client
main_finally ==
  /\ mpc = "finally"
  /\ mpc' = "end"
  /\ IF prog = "admin"
       THEN /\ clientClosed' = TRUE
            /\ UNCHANGED <<shown, printed, escaped>>
       ELSE IF logBound
         THEN /\ shown' = TRUE
              /\ printed' = commands_log
              /\ clientClosed' = TRUE
              /\ UNCHANGED escaped
         ELSE /\ escaped' = "NameError"
              /\ UNCHANGED <<shown, printed, clientClosed>>
  /\ UNCHANGED <<pc, r, handled, session, exitPath, raised, remote, terminal,
                 operator, prog, sessions, transfers, logBound>>
  /\ UNCHANGED monvars

MainNext ==
  \/ main_connect
  \/ main_transfer
  \/ main_shell
  \/ main_exit
  \/ main_input_error
  \/ shell_returns
  \/ main_except
  \/ main_finally
  \/ setup_terminal
  \/ select_wait
  \/ channel_recv
  \/ stdin_read
  \/ finally_flush
  \/ restore_terminal
  \/ operator_types
  \/ remote_sends
  \/ remote_closes

\* a whole run of user_connection.main or admin_connection.main
MainSpec == MainInit /\ [][MainNext]_vars

(* ---------------- the three copies of interactive_shell ---------------- *)

\* the characters typed when the three copies are compared
CopyChars == {"a", CR, DEL, SENTINEL}

\* one call of interactive_shell in each of the three programs
CopyInit ==
  /\ keys \in SeqsUpTo(CopyChars, MaxKeys)
  /\ InitRest
  /\ prog \in {"user", "admin", "cluster"}
  /\ InShell
  /\ MonIdle

CopySpec == CopyInit /\ [][Next]_vars

\* the steps of interactive_shell are taken whenever they can be; the
\* operator, the remote end and the outcome of each call are not constrained
FairSpec ==
  /\ Spec
  /\ WF_vars(setup_terminal)
  /\ WF_vars(select_wait)
  /\ WF_vars(channel_recv)
  /\ WF_vars(stdin_read)
  /\ WF_vars(finally_flush)
  /\ WF_vars(restore_terminal)

(* ---------------- the history lists of the monitors ---------------- *)

\* number of samples taken in one run of update_history calls
MaxUpdates == 62

\* number of calls update_history(None)
MaxNone == 1

\* number of samples taken under load
MaxHot == 1

\* history_length of system_health_P3.py line 14 and
\* cluster_system_health_monitor.py line 20
history_length == 60

\* the usage figures of an idle machine and of a loaded one
Quiet == [cpu |-> 50, memory |-> 50, disk |-> 50]
Full == [cpu |-> 90, memory |-> 90, disk |-> 90]

\* the dictionary get_server_metrics returns for usage figures u read at
\* time t (the two process listings are text no step examines)
Metrics(u, t) ==
  [timestamp |-> t, cpu |-> u.cpu, memory |-> u.memory, disk |-> u.disk]

\* Python's truth value of what get_server_metrics returned
Truthy(m) == m # None

\* list[:n] for n > 0
FirstN(list, n) == SubSeq(list, 1, IF Len(list) > n THEN n ELSE Len(list))

\* list[-n:] for n > 0
LastN(list, n) ==
  SubSeq(list, IF Len(list) > n THEN Len(list) - n + 1 ELSE 1, Len(list))

\* the four lists after the appends and the trimming of update_history
AppendSample(m) ==
  LET ts == Append(timestamps, m.timestamp)
      cs == Append(cpu_history, m.cpu)
      ms == Append(mem_history, m.memory)
      ds == Append(disk_history, m.disk)
  IN  IF Len(ts) > history_length
        THEN /\ timestamps' = LastN(ts, history_length)
             /\ cpu_history' = LastN(cs, history_length)
             /\ mem_history' = LastN(ms, history_length)
             /\ disk_history' = LastN(ds, history_length)
        ELSE /\ timestamps' = ts
             /\ cpu_history' = cs
             /\ mem_history' = ms
             /\ disk_history' = ds

\* cluster_system_health_monitor.update_history(m): nothing at all for a
\* false m
UpdateHistory(m) ==
  IF Truthy(m)
    THEN /\ last_metrics' = m
         /\ AppendSample(m)
         /\ arrived' = Append(arrived, m)
    ELSE UNCHANGED <<history, last_metrics, arrived>>

\* the usage figures a caller may pass: any number of quiet ones and a
\* bounded number of loaded ones
Usage == {Quiet} \cup (IF hot < MaxHot THEN {Full} ELSE {})

\* no interactive session and no main of CA1/P2 is running
ShellIdle ==
  /\ keys = <<>>
  /\ pc = "idle"
  /\ mpc = "end"
  /\ r = {}
  /\ handled = {}
  /\ command_buffer = <<>>
  /\ commands_log = <<>>
  /\ pending = <<>>
  /\ inbox = <<>>
  /\ produced = 0
  /\ closed = FALSE
  /\ readSeq = <<>>
  /\ sent = <<>>
  /\ output = <<>>
  /\ enters = 0
  /\ restores = 0
  /\ exitPath = "none"
  /\ raised = "none"
  /\ fed = <<>>
  /\ sessions = 0
  /\ transfers = 0
  /\ logBound = FALSE
  /\ shown = FALSE
  /\ printed = <<>>
  /\ clientClosed = FALSE
  /\ escaped = "none"

\* the variables of CA1/P2, which no monitor step changes
shellvars == <<pc, r, handled, session, keys, pending, remote, terminal,
               exitPath, raised, mainvars>>

\* the two monitors after import, before the first sample
HistInit ==
  /\ prog \in {"local", "cluster"}
  /\ ShellIdle
  /\ MonIdle

\* system_health_P3.py lines 52-64: update_history(cpu, mem, disk), which
\* reads the clock itself
update_history_P3 ==
  /\ prog = "local"
  /\ now < MaxUpdates
  /\ \E u \in Usage :
       /\ AppendSample(Metrics(u, now + 1))
       /\ arrived' = Append(arrived, Metrics(u, now + 1))
       /\ hot' = IF u = Full THEN hot + 1 ELSE hot
  /\ now' = now + 1
  /\ UNCHANGED <<last_metrics, last_warnings, monitoring_active, noneCalls,
                 tpc, metrics, cpc, it, shownWarnings, shownMetrics, prints>>
  /\ UNCHANGED shellvars

\* cluster_system_health_monitor.py lines 82-95: update_history(metrics)
\* with a sample
update_history ==
  /\ prog = "cluster"
  /\ now < MaxUpdates
  /\ \E u \in Usage :
       /\ UpdateHistory(Metrics(u, now + 1))
       /\ hot' = IF u = Full THEN hot + 1 ELSE hot
  /\ now' = now + 1
  /\ UNCHANGED <<last_warnings, monitoring_active, noneCalls, tpc, metrics,
                 cpc, it, shownWarnings, shownMetrics, prints>>
  /\ UNCHANGED shellvars

\* cluster_system_health_monitor.py lines 82-95: update_history(None)
update_history_none ==
  /\ prog = "cluster"
  /\ noneCalls < MaxNone
  /\ UpdateHistory(None)
  /\ noneCalls' = noneCalls + 1
  /\ UNCHANGED <<last_warnings, monitoring_active, now, hot, tpc, metrics,
                 cpc, it, shownWarnings, shownMetrics, prints>>
  /\ UNCHANGED shellvars

HistNext ==
  \/ update_history_P3
  \/ update_history
  \/ update_history_none

\* any sequence of update_history calls in either monitor
HistSpec == HistInit /\ [][HistNext]_vars

(* ---------------- the cluster monitor and its status command ---------------- *)

\* number of times the monitor thread calls get_server_metrics
MaxSamples == 2

\* number of status commands the operator gives
MaxPrints == 2

\* the defaults of --cpu, --mem and --disk, lines 204-206, which main passes
\* to monitor_server and print_status shows
cpu_thresh == 80
mem_thresh == 85
disk_thresh == 80

\* usage figures exactly on the thresholds
Edge == [cpu |-> cpu_thresh, memory |-> mem_thresh, disk |-> disk_thresh]

\* what the server may report to the monitor thread
MonUsage == {Quiet, Edge, Full}

\* the text of a warning: the resource, the figure and the threshold
Warning(kind, value, thresh) == <<kind, value, thresh>>

\* one of the three checks of lines 132-143
Check(warnings, kind, value, thresh) ==
  IF value > thresh
    THEN Append(warnings, Warning(kind, value, thresh))
    ELSE warnings

\* the monitor thread and the main thread of the cluster monitor
threadvars == <<tpc, metrics>>
statusvars == <<cpc, it, shownWarnings, shownMetrics, prints>>

\* lines 237-248: monitoring_active is set, the monitor thread is started
\* and the main thread waits for a command
MonInit ==
  /\ prog = "cluster"
  /\ ShellIdle
  /\ timestamps = <<>>
  /\ cpu_history = <<>>
  /\ mem_history = <<>>
  /\ disk_history = <<>>
  /\ last_metrics = None
  /\ last_warnings = <<>>
  /\ monitoring_active = TRUE
  /\ now = 0
  /\ arrived = <<>>
  /\ noneCalls = 0
  /\ hot = 0
  /\ tpc = "loop"
  /\ metrics = None
  /\ cpc = "input"
  /\ it = 0
  /\ shownWarnings = <<>>
  /\ shownMetrics = <<>>
  /\ prints = 0

\* line 125: while monitoring_active
mon_loop ==
  /\ tpc = "loop"
  /\ tpc' = IF monitoring_active THEN "get" ELSE "off"
  /\ UNCHANGED <<history, last_metrics, last_warnings, monitoring_active,
                 now, arrived, noneCalls, hot, metrics, statusvars>>
  /\ UNCHANGED shellvars

\* lines 127-128: metrics = get_server_metrics(), which returns None when a
\* remote command fails; if metrics
mon_get ==
  /\ tpc = "get"
  /\ now < MaxSamples
  /\ \E m \in {Metrics(u, now + 1) : u \in MonUsage} \cup {None} :
       /\ metrics' = m
       /\ tpc' = IF Truthy(m) THEN "update" ELSE "sleep"
  /\ now' = now + 1
  /\ UNCHANGED <<history, last_metrics, last_warnings, monitoring_active,
                 arrived, noneCalls, hot, statusvars>>
  /\ UNCHANGED shellvars

\* line 129: update_history(metrics)
mon_update ==
  /\ tpc = "update"
  /\ UpdateHistory(metrics)
  /\ tpc' = "plot"
  /\ UNCHANGED <<last_warnings, monitoring_active, now, noneCalls, hot,
                 metrics, statusvars>>
  /\ UNCHANGED shellvars

\* line 130: generate_plot, which writes a file and may raise; lines
\* 145-147 then log the error, sleep and go round the loop
mon_plot ==
  /\ tpc = "plot"
  /\ \E ok \in BOOLEAN : tpc' = IF ok THEN "clear" ELSE "loop"
  /\ UNCHANGED <<history, last_metrics, last_warnings, monitoring_active,
                 now, arrived, noneCalls, hot, metrics, statusvars>>
  /\ UNCHANGED shellvars

\* line 131: last_warnings.clear()
mon_clear ==
  /\ tpc = "clear"
  /\ last_warnings' = <<>>
  /\ tpc' = "cpu"
  /\ UNCHANGED <<history, last_metrics, monitoring_active, now, arrived,
                 noneCalls, hot, metrics, statusvars>>
  /\ UNCHANGED shellvars

\* lines 132-143: the cpu, memory and disk checks on the local metrics
mon_check ==
  /\ tpc \in {"cpu", "memory", "disk"}
  /\ last_warnings' =
       CASE tpc = "cpu" ->
              Check(last_warnings, "CPU", metrics.cpu, cpu_thresh)
         [] tpc = "memory" ->
              Check(last_warnings, "Memory", metrics.memory, mem_thresh)
         [] tpc = "disk" ->
              Check(last_warnings, "Disk", metrics.disk, disk_thresh)
  /\ tpc' = CASE tpc = "cpu" -> "memory"
              [] tpc = "memory" -> "disk"
              [] tpc = "disk" -> "sleep"
  /\ UNCHANGED <<history, last_metrics, monitoring_active, now, arrived,
                 noneCalls, hot, metrics, statusvars>>
  /\ UNCHANGED shellvars

\* line 144: time.sleep(interval)
mon_sleep ==
  /\ tpc = "sleep"
  /\ tpc' = "loop"
  /\ UNCHANGED <<history, last_metrics, last_warnings, monitoring_active,
                 now, arrived, noneCalls, hot, metrics, statusvars>>
  /\ UNCHANGED shellvars

\* lines 245, 251-252: the command "status" calls print_status(args)
cluster_status ==
  /\ cpc = "input"
  /\ prints < MaxPrints
  /\ prints' = prints + 1
  /\ cpc' = "check"
  /\ it' = 0
  /\ shownWarnings' = <<>>
  /\ shownMetrics' = <<>>
  /\ UNCHANGED <<history, last_metrics, last_warnings, monitoring_active,
                 now, arrived, noneCalls, hot, threadvars>>
  /\ UNCHANGED shellvars

\* lines 253-254, 259-260: the command "exit" leaves the loop and the
\* finally clause clears monitoring_active
cluster_exit ==
  /\ cpc = "input"
  /\ monitoring_active' = FALSE
  /\ cpc' = "exited"
  /\ UNCHANGED <<history, last_metrics, last_warnings, now, arrived,
                 noneCalls, hot, threadvars, it, shownWarnings, shownMetrics,
                 prints>>
  /\ UNCHANGED shellvars

\* lines 152-154: if not last_metrics, print_status returns
ps_check ==
  /\ cpc = "check"
  /\ cpc' = IF Truthy(last_metrics) THEN "warnings" ELSE "input"
  /\ UNCHANGED <<history, last_metrics, last_warnings, monitoring_active,
                 now, arrived, noneCalls, hot, threadvars, it, shownWarnings,
                 shownMetrics, prints>>
  /\ UNCHANGED shellvars

\* lines 156-158: if last_warnings, the heading is printed and the for
\* statement creates an iterator over the list
ps_warnings ==
  /\ cpc = "warnings"
  /\ cpc' = IF last_warnings # <<>> THEN "iter" ELSE "cpu"
  /\ it' = 0
  /\ UNCHANGED <<history, last_metrics, last_warnings, monitoring_active,
                 now, arrived, noneCalls, hot, threadvars, shownWarnings,
                 shownMetrics, prints>>
  /\ UNCHANGED shellvars

\* lines 158-159: the iterator yields the element at its index of the list
\* as the list is now, or ends
ps_iter ==
  /\ cpc = "iter"
  /\ IF it < Len(last_warnings)
       THEN /\ shownWarnings' = Append(shownWarnings, last_warnings[it + 1])
            /\ it' = it + 1
            /\ cpc' = "iter"
       ELSE /\ cpc' = "cpu"
            /\ UNCHANGED <<it, shownWarnings>>
  /\ UNCHANGED <<history, last_metrics, last_warnings, monitoring_active,
                 now, arrived, noneCalls, hot, threadvars, shownMetrics,
                 prints>>
  /\ UNCHANGED shellvars

\* lines 160-162: each print reads the global last_metrics again
ps_metric ==
  /\ cpc \in {"cpu", "memory", "disk"}
  /\ shownMetrics' =
       Append(shownMetrics,
              CASE cpc = "cpu" -> last_metrics.cpu
                [] cpc = "memory" -> last_metrics.memory
                [] cpc = "disk" -> last_metrics.disk)
  /\ cpc' = CASE cpc = "cpu" -> "memory"
              [] cpc = "memory" -> "disk"
              [] cpc = "disk" -> "tail"
  /\ UNCHANGED <<history, last_metrics, last_warnings, monitoring_active,
                 now, arrived, noneCalls, hot, threadvars, it, shownWarnings,
                 prints>>
  /\ UNCHANGED shellvars

\* lines 163-170: the process listings, the time of the last check and the
\* settings; print_status returns to the command loop
ps_tail ==
  /\ cpc = "tail"
  /\ cpc' = "input"
  /\ UNCHANGED <<history, last_metrics, last_warnings, monitoring_active,
                 now, arrived, noneCalls, hot, threadvars, it, shownWarnings,
                 shownMetrics, prints>>
  /\ UNCHANGED shellvars

MonNext ==
  \/ mon_loop
  \/ mon_get
  \/ mon_update
  \/ mon_plot
  \/ mon_clear
  \/ mon_check
  \/ mon_sleep
  \/ cluster_status
  \/ cluster_exit
  \/ ps_check
  \/ ps_warnings
  \/ ps_iter
  \/ ps_metric
  \/ ps_tail

\* the monitor thread and the command loop of the main thread, interleaved
\* statement by statement
MonSpec == MonInit /\ [][MonNext]_vars

(* ---------------- properties ---------------- *)

Range(s) == {s[i] : i \in DOMAIN s}
Last(s) == s[Len(s)]
IsPrefix(s, t) == Len(s) <= Len(t) /\ SubSeq(t, 1, Len(s)) = s

\* the session is in its loop
Running == pc \in {"select", "chan", "stdin"}

\* a step of stdin_read that read char and whose channel.send returned
Handled(char) ==
  /\ pc = "stdin"
  /\ readSeq' = Append(readSeq, char)
  /\ pc' = "select"

NonSentinel(c) == c # SENTINEL

(* ---- C1 ---- *)

\* C1: every entry of commands_log is non-empty, neither begins nor ends
\* with a whitespace character, and does not contain '\r'
C1_EntriesTrimmed ==
  \A i \in DOMAIN commands_log :
    LET e == commands_log[i] IN
    /\ e # <<>>
    /\ ~isspace(e[1])
    /\ ~isspace(e[Len(e)])
    /\ CR \notin Range(e)

\* an entry was appended from a buffer that had blanks on both sides
C1_Witness ==
  /\ commands_log # <<>>
  /\ Len(command_buffer) = 3
  /\ isspace(command_buffer[1])
  /\ isspace(command_buffer[3])
  /\ Last(commands_log) = <<command_buffer[2]>>

(* ---- C2 ---- *)

\* C2: when interactive_shell has ended (by the sentinel, the end of the
\* stream or an exception) with a buffer that is non-empty after trimming,
\* the trimmed buffer is the last entry of commands_log
C2_PendingFlushed ==
  (pc = "done" /\ enters = 1 /\ strip(command_buffer) # <<>>) =>
    /\ commands_log # <<>>
    /\ Last(commands_log) = strip(command_buffer)

\* the session ended on a failed channel.send with a pending partial command
C2_Witness ==
  /\ pc = "done"
  /\ raised = "ChannelWriteError"
  /\ strip(command_buffer) # <<>>
  /\ Len(commands_log) = 1

(* ---- C3 ---- *)

\* C3: the sentinel is never passed to channel.send, never in the buffer and
\* never in an entry of commands_log
C3_SentinelIntercepted ==
  /\ SENTINEL \notin Range(sent)
  /\ SENTINEL \notin Range(command_buffer)
  /\ \A i \in DOMAIN commands_log : SENTINEL \notin Range(commands_log[i])

\* the sentinel was read after other characters had been forwarded
C3_Witness ==
  /\ SENTINEL \in Range(readSeq)
  /\ sent # <<>>
  /\ exitPath = "sentinel"
  /\ pc = "done"

(* ---- C4 ---- *)

\* C4: restore_terminal is never called more often than raw mode was
\* entered, and once interactive_shell has returned or raised it was called
\* as often as raw mode was entered (once)
C4_RestoredOnce ==
  /\ restores <= enters
  /\ enters <= 1
  /\ pc = "done" => restores = enters

\* raw mode was entered and the session ended on an error of the loop
C4_Witness ==
  /\ pc = "done"
  /\ enters = 1
  /\ raised \in {"ChannelReadError", "ChannelWriteError", "LocalInputError",
                 "UnicodeDecodeError"}

(* ---- C5 ---- *)

\* C5: when recv returns no data the loop is left in that step, with no
\* local character read in that iteration; from then on no character is read
\* or forwarded, the flush appends the trimmed pending buffer if it is
\* non-empty, and the terminal is restored only after the flush
C5_EndOfStream ==
  [][ /\ (exitPath # "eos" /\ exitPath' = "eos") =>
            /\ pc = "chan"
            /\ pc' = "finally"
            /\ "stdin" \notin handled'
      /\ (exitPath = "eos") =>
            /\ readSeq' = readSeq
            /\ sent' = sent
            /\ pc' \in {"finally", "restore", "done"}
            /\ pc = "finally" => restores' = 0
            /\ (pc = "finally" /\ pc' # "finally") =>
                 /\ pc' = "restore"
                 /\ commands_log' =
                      IF strip(command_buffer) # <<>>
                        THEN Append(commands_log, strip(command_buffer))
                        ELSE commands_log
            /\ restores' # restores => pc = "restore"
    ]_vars

\* the stream ended while a partial command and an unread key were pending,
\* and the partial command is in the log
C5_Witness ==
  /\ exitPath = "eos"
  /\ pc = "done"
  /\ pending # <<>>
  /\ command_buffer = <<"a">>
  /\ commands_log = << <<"a">> >>

(* ---- C6 ---- *)

\* C6: a step that reads '\r' and forwards it appends the trimmed buffer to
\* commands_log iff it is non-empty after trimming, and empties the buffer;
\* "ls -la\r" yields the log ["ls -la"], a line of blanks yields no entry
C6_CarriageReturn ==
  [][ /\ Handled(CR) =>
            /\ command_buffer' = <<>>
            /\ strip(command_buffer) # <<>> =>
                 commands_log' = Append(commands_log, strip(command_buffer))
            /\ strip(command_buffer) = <<>> => commands_log' = commands_log
      /\ (readSeq' = LsLa /\ sent' = LsLa /\ raised' = "none") =>
            commands_log' = << <<"l", "s", " ", "-", "l", "a">> >>
      /\ (readSeq' = Blanks /\ sent' = Blanks /\ raised' = "none") =>
            commands_log' = <<>>
    ]_vars

\* "ls -la\r" was read and forwarded and the log holds the one command
C6_Witness ==
  /\ readSeq = LsLa
  /\ pc = "select"
  /\ command_buffer = <<>>
  /\ Len(commands_log) = 1

(* ---- C7 ---- *)

\* C7: a step that reads '\x7f' or '\b' and forwards it removes the last
\* character of a non-empty buffer, leaves an empty buffer empty, raises
\* nothing and leaves the log alone; "ls\x7f\x7fpwd\r" yields ["pwd"]
C7_Backspace ==
  [][ /\ (Handled(DEL) \/ Handled(BS)) =>
            /\ command_buffer # <<>> =>
                 /\ Len(command_buffer') = Len(command_buffer) - 1
                 /\ IsPrefix(command_buffer', command_buffer)
            /\ command_buffer = <<>> => command_buffer' = <<>>
            /\ commands_log' = commands_log
            /\ raised' = raised
      /\ (readSeq' = LsPwd /\ sent' = LsPwd /\ raised' = "none") =>
            commands_log' = << <<"p", "w", "d">> >>
    ]_vars

\* "ls\x7f\x7fpwd\r" was read and forwarded and the log holds "pwd"
C7_Witness ==
  /\ readSeq = LsPwd
  /\ pc = "select"
  /\ commands_log = << <<"p", "w", "d">> >>

(* ---- C8 ---- *)

\* C8: when select reported both the channel and the local input ready,
\* both were processed when the next select is entered
C8_BothProcessed ==
  (pc = "select" /\ r = {"channel", "stdin"}) => handled = {"channel", "stdin"}

(* ---- C9 ---- *)

\* C9: while the session is running, a character available on the local
\* input is eventually read, and data available on the channel is eventually
\* received
C9_NoStarvation ==
  /\ \A n \in 0..8 :
       (Running /\ pending # <<>> /\ Len(readSeq) = n)
         ~> (~Running \/ Len(readSeq) > n)
  /\ (Running /\ inbox # <<>>) ~> (~Running \/ inbox = <<>>)

(* ---- C10 ---- *)

\* C10: the characters passed to channel.send are the characters read from
\* the local input other than the sentinel, in the order read
C10_ForwardedInOrder ==
  sent = SelectSeq(readSeq, NonSentinel)

\* a control character and the sentinel were read after a printable one
C10_Witness ==
  /\ readSeq = <<"a", ETX, SENTINEL>>
  /\ sent = <<"a", ETX>>

(* ---- C11 ---- *)

\* C11: a step in which recv times out (nothing to deliver, channel open, no
\* error raised) keeps the session in its loop and changes neither the
\* buffer, the log, what was sent, what was written nor what was read
C11_TimeoutNoChange ==
  [][ (pc = "chan" /\ inbox = <<>> /\ ~closed /\ pc' # pc /\ raised' = raised) =>
        /\ pc' \in {"select", "chan", "stdin"}
        /\ exitPath' = exitPath
        /\ command_buffer' = command_buffer
        /\ commands_log' = commands_log
        /\ sent' = sent
        /\ output' = output
        /\ readSeq' = readSeq
    ]_vars

\* recv has timed out, with a key waiting, in a session that has a log
C11_Witness ==
  /\ pc = "select"
  /\ handled = {"channel"}
  /\ "stdin" \in r
  /\ sent # <<>>
  /\ commands_log # <<>>

(* ---- C12 ---- *)

\* C12: once the local read or channel.send has raised, no character is read
\* or sent again, the character whose send failed is in neither the buffer
\* nor the characters assembled, and interactive_shell is left only with the
\* buffer flushed and the terminal restored
C12_ErrorAfterCleanup ==
  [][ /\ (raised' = "ChannelWriteError" /\ raised # "ChannelWriteError") =>
            /\ command_buffer' = command_buffer
            /\ commands_log' = commands_log
            /\ fed' = fed
            /\ Len(fed') < Len(sent')
      /\ (raised \in {"LocalInputError", "ChannelWriteError"}) =>
            /\ readSeq' = readSeq
            /\ sent' = sent
            /\ fed' = fed
            /\ command_buffer' = command_buffer
            /\ pc' \in {"finally", "restore", "done"}
      /\ (raised' \in {"LocalInputError", "ChannelWriteError"} /\ pc' = "done") =>
            /\ restores' = 1
            /\ strip(command_buffer') # <<>> =>
                 /\ commands_log' # <<>>
                 /\ Last(commands_log') = strip(command_buffer')
    ]_vars

\* a send failed on the second character: the error reaches the caller with
\* the terminal restored and only the first character logged
C12_Witness ==
  /\ pc = "done"
  /\ raised = "ChannelWriteError"
  /\ restores = 1
  /\ readSeq = <<"a", "a">>
  /\ commands_log = << <<"a">> >>

(* ---- C13 ---- *)

\* C13: when setup_terminal has raised, interactive_shell is over: no select
\* was made, nothing was read, sent, received or written, commands_log is as
\* it was and restore_terminal is not called
C13_SetupFailure ==
  (raised = "TerminalModeError" /\ enters = 0) =>
    /\ pc = "done"
    /\ r = {}
    /\ handled = {}
    /\ readSeq = <<>>
    /\ sent = <<>>
    /\ output = <<>>
    /\ commands_log = <<>>
    /\ restores = 0

\* setup_terminal raised while a key and a chunk were waiting
C13_Witness ==
  /\ raised = "TerminalModeError"
  /\ enters = 0
  /\ pc = "done"
  /\ pending # <<>>
  /\ inbox # <<>>

(* ---- C15 ---- *)

\* Starting 0, Running 1, Draining 2 (before the flush), flushed 3, Closed 4
Rank(p) ==
  CASE p = "start" -> 0
    [] p \in {"select", "chan", "stdin"} -> 1
    [] p = "finally" -> 2
    [] p = "restore" -> 3
    [] p = "done" -> 4

\* C15: a session goes through Starting, Running, Draining, Closed in that
\* order (or from Starting to the end when raw mode cannot be entered); no
\* character is read, forwarded or assembled once the loop is left, the log
\* only changes in the loop and in the flush, and the terminal is restored
\* after the flush, as the last step
C15_StateOrder ==
  [][ /\ \/ Rank(pc') = Rank(pc)
         \/ Rank(pc') = Rank(pc) + 1
         \/ pc = "start" /\ pc' = "done" /\ enters' = 0
      /\ Rank(pc) >= 2 =>
            /\ readSeq' = readSeq
            /\ sent' = sent
            /\ fed' = fed
            /\ command_buffer' = command_buffer
      /\ commands_log' # commands_log => pc \in {"stdin", "finally"}
      /\ restores' # restores => (pc = "restore" /\ pc' = "done")
      /\ pc = "done" => (commands_log' = commands_log /\ restores' = restores)
    ]_vars

\* a session that logged a terminated command and flushed a partial one
C15_Witness ==
  /\ pc = "done"
  /\ exitPath = "eos"
  /\ restores = 1
  /\ Len(commands_log) = 2

(* ---- C18 ---- *)

\* C18: a step that reads and forwards a control character that is neither
\* '\r' nor a backspace leaves the buffer and the log as they are, and the
\* buffer only ever holds printable characters
C18_ControlIgnored ==
  [][ /\ Handled(ETX) =>
            /\ command_buffer' = command_buffer
            /\ commands_log' = commands_log
            /\ sent' = Append(sent, ETX)
      /\ Range(command_buffer') \subseteq Letters \cup {" "}
    ]_vars

\* a control character typed inside a word has left the word whole
C18_Witness ==
  /\ readSeq = <<"a", ETX, "a">>
  /\ sent = <<"a", ETX, "a">>
  /\ command_buffer = <<"a", "a">>

(* ---- C19 ---- *)

\* C19: a step in which recv returns a chunk writes that chunk to the local
\* output and leaves the session in its loop
C19_ChunksWritten ==
  [][ (pc = "chan" /\ inbox # <<>> /\ pc' # pc /\ raised' # "ChannelReadError") =>
        /\ output' = Append(output, Head(inbox))
        /\ pc' \in {"select", "chan", "stdin"}
    ]_vars

(* ---- C16 ---- *)

\* the assembly of lines 42-49 applied to a sequence of characters in order
RECURSIVE Replay(_, _, _)
Replay(buf, log, chars) ==
  IF chars = <<>> THEN [buf |-> buf, log |-> log]
  ELSE LET a == Assemble(buf, log, Head(chars))
       IN  Replay(a.buf, a.log, Tail(chars))

\* the log of a session as a function of the local characters alone: the
\* characters read and forwarded, replayed, and flushed once the loop is left
LogOfKeys(chars, left) ==
  LET a == Replay(<<>>, <<>>, chars)
  IN  IF left THEN Flush(a.buf, a.log) ELSE a.log

\* C16: the command log is determined by the local characters read (those
\* whose send returned, which are all the non-sentinel characters read but
\* possibly the last); what the channel delivered, when, and how the channel
\* ended the session do not enter into it
C16_LogIndependentOfRemote ==
  /\ IsPrefix(fed, SelectSeq(readSeq, NonSentinel))
  /\ Len(fed) >= Len(SelectSeq(readSeq, NonSentinel)) - 1
  /\ commands_log = LogOfKeys(fed, pc \in {"restore", "done"} /\ enters = 1)

\* a session that wrote remote output, logged a command and a partial one,
\* and was ended by the remote
C16_Witness ==
  /\ pc = "done"
  /\ exitPath = "eos"
  /\ output # <<>>
  /\ fed = <<"a", CR, "a">>
  /\ commands_log = << <<"a">>, <<"a">> >>

(* ---- C14 ---- *)

\* C14: when a run of main in which interactive_shell was called has ended,
\* main has printed the command log, every entry of it
C14_LogShown ==
  (mpc = "end" /\ sessions >= 1) => printed = commands_log

(* ---- C17 ---- *)

\* C17 as claimed: in each of the three programs the characters sent are the
\* non-sentinel characters read, the sentinel ends the session, and the log
\* is the one the characters read and forwarded assemble to
C17_ThreeIdentical ==
  /\ sent = SelectSeq(readSeq, NonSentinel)
  /\ (exitPath = "sentinel") <=> (SENTINEL \in Range(readSeq))
  /\ Range(output) \subseteq {"text"}
  /\ commands_log = LogOfKeys(fed, pc \in {"restore", "done"} /\ enters = 1)

\* C17 as amended: the three programs send the same characters, write the
\* same output and end on the same events; user_connection and
\* admin_connection reconstruct the same log, and the interactive_shell of
\* the cluster monitor, which has no commands_log, reconstructs none
C17_SameMultiplexing ==
  /\ sent = SelectSeq(readSeq, NonSentinel)
  /\ (exitPath = "sentinel") <=> (SENTINEL \in Range(readSeq))
  /\ (exitPath = "eos") => (closed /\ inbox = <<>>)
  /\ Range(output) \subseteq {"text"}
  /\ Len(output) + Len(inbox) <= produced
  /\ (pc = "done" /\ enters = 1) => restores = 1
  /\ prog \in {"user", "admin"} =>
       commands_log = LogOfKeys(fed, pc \in {"restore", "done"} /\ enters = 1)
  /\ prog = "cluster" => (commands_log = <<>> /\ command_buffer = <<>>)

\* the cluster monitor's session forwarded a command line and logged nothing
C17_Witness ==
  /\ prog = "cluster"
  /\ pc = "done"
  /\ fed = <<"a", CR>>
  /\ sent = <<"a", CR>>
  /\ commands_log = <<>>

(* ---- C20 ---- *)

\* C20: every step of a run of main leaves the entries already in
\* commands_log where they are: the log before is a prefix of the log after
C20_AppendOnly ==
  [][IsPrefix(commands_log, commands_log')]_vars

\* admin_connection ran two shells and a transfer, each of which logged
C20_Witness ==
  /\ prog = "admin"
  /\ sessions = 2
  /\ transfers = 1
  /\ Len(commands_log) = 3
  /\ mpc = "end"

(* ---- C21 ---- *)

\* C21: when user_connection.main has ended, client.close() was called and
\* no exception has left main
C21_UserMainCloses ==
  (prog = "user" /\ mpc = "end") => (clientClosed /\ escaped = "none")

(* ---- C22 ---- *)

\* the last n elements of s, oldest first
Recent(s, n) ==
  LET k == IF Len(s) < n THEN Len(s) ELSE n
  IN  [i \in 1..k |-> s[Len(s) - k + i]]

\* C22: after every update_history call the four history lists have the
\* same length, which is at most history_length, and position by position
\* hold the timestamp, cpu, memory and disk figures of the most recent
\* accepted samples, oldest first; a call update_history(None) of the
\* cluster monitor leaves the four lists as they were
C22_HistoryWindow ==
  [][ /\ LET recent == Recent(arrived', history_length)
         IN  /\ Len(timestamps') <= history_length
             /\ timestamps' = [i \in DOMAIN recent |-> recent[i].timestamp]
             /\ cpu_history' = [i \in DOMAIN recent |-> recent[i].cpu]
             /\ mem_history' = [i \in DOMAIN recent |-> recent[i].memory]
             /\ disk_history' = [i \in DOMAIN recent |-> recent[i].disk]
      /\ noneCalls' # noneCalls => UNCHANGED history ]_vars

\* more samples than history_length have arrived, a loaded one among those
\* kept, and the cluster monitor has had a call with None
C22_Witness ==
  /\ prog = "cluster"
  /\ Len(arrived) > history_length
  /\ Len(timestamps) = history_length
  /\ noneCalls > 0
  /\ Full.cpu \in Range(cpu_history)
  /\ timestamps[1] = now - history_length + 1

(* ---- C23 ---- *)

\* the warnings due for the figures cpu, memory and disk
Violations(figures) ==
  SelectSeq(<<Warning("CPU", figures[1], cpu_thresh),
              Warning("Memory", figures[2], mem_thresh),
              Warning("Disk", figures[3], disk_thresh)>>,
            LAMBDA w : w[2] > w[3])

\* C23: once print_status has printed the cpu, memory and disk figures, the
\* warnings it printed before them are exactly the warnings for those of
\* the three figures that are strictly above their thresholds
C23_WarningsMatchSample ==
  Len(shownMetrics) = 3 => shownWarnings = Violations(shownMetrics)

====
